---- MODULE Spec2Model ----
(***************************************************************************)
(* Model of crf_feature_ablation.py: the data loader, the feature builder, *)
(* the label extractor, the scope metric, the result writer, the ablation  *)
(* driver and the trainer/evaluator around the on-disk file crf.model.     *)
(*                                                                         *)
(* Sequences are 1-indexed here and 0-indexed in the source: index i of    *)
(* the model is index i-1 of the code.                                     *)
(***************************************************************************)
EXTENDS Integers, Sequences, FiniteSets, TLC

VARIABLES
    \* extract_features
    sentence, exclude_feature, sentence_features, fpc,
    \* calculate_metrics
    y_true, y_pred, metrics, mpc,
    \* read_and_format_data, write_predictions_to_file, extract_labels
    original_file, formatted_data, sentences_with_predictions, output_file,
    reloaded_labels, iopc,
    \* train_and_evaluate and the ablation script
    call, fs, train_count, dpc, feature_index, baseline_f1_score, console

featVars == <<sentence, exclude_feature, sentence_features, fpc>>
metricVars == <<y_true, y_pred, metrics, mpc>>
fileVars == <<original_file, formatted_data, sentences_with_predictions,
              output_file, reloaded_labels, iopc>>
runVars == <<call, fs, train_count, dpc, feature_index, baseline_f1_score, console>>
vars == <<featVars, metricVars, fileVars, runVars>>

(***************************************************************************)
(* Bounds                                                                  *)
(***************************************************************************)
MaxLen == 3          \* longest sentence handed to extract_features
MaxLabels == 3       \* longest label sequence handed to calculate_metrics
MaxRows == 3         \* most rows of a TSV file
NumCalls == 2        \* concurrent calls of train_and_evaluate

(***************************************************************************)
(* Python values                                                           *)
(***************************************************************************)
None == "<None>"     \* Python's None (default of exclude_feature)

\* truth value of a str-or-None, as tested by `if exclude_feature and ...`
Truthy(v) == v # None /\ v # ""

(***************************************************************************)
(* Token records: the 16-tuple built at line 22 and unpacked at line 39    *)
(***************************************************************************)
TokenFields ==
    << "token", "lemma", "pos", "cue", "constituency_distance", "same_clause",
       "same_phrase", "is_punct", "sentence_position", "is_negation_cue",
       "token_distance", "dependency_type", "dependency_head",
       "distance_to_root", "distance_to_cue", "label" >>

\* candidate list of the ablation study
features_to_ablate ==
    << "token", "lemma", "pos", "lexicalized_pos", "prev_pos", "next_pos",
       "cue", "constituency_distance", "same_clause", "same_phrase",
       "is_punct", "sentence_position", "is_negation_cue", "token_distance",
       "dependency_type", "dependency_head", "distance_to_root",
       "distance_to_cue" >>

Range(s) == { s[i] : i \in DOMAIN s }

PosTags == { "NN", "RB" }
Lemmas == { "be", "not" }
Labels == { "OS", "NEG", "IS" }

\* token records the feature builder is exercised on
SampleTokens ==
    { << l, l, p, "_", "1", "True", "False", "False", "0", "False", "2",
         "neg", "3", "1", "1", g >> :
        l \in Lemmas, p \in PosTags, g \in { "OS", "NEG" } }

SeqsUpTo(S, n) == UNION { [1..k -> S] : k \in 0..n }

\* values of exclude_feature: absent, empty, every candidate, the gold label
\* (a token attribute that is no feature) and an unknown name
ExcludeArgs == { None, "", "label", "no_such_feature" } \cup Range(features_to_ablate)

(***************************************************************************)
(* extract_features                                                        *)
(***************************************************************************)
\* sentence[i - 1][2] if i > 0 else 'START'
prev_pos(sent, i) == IF i > 1 THEN sent[i - 1][3] ELSE "START"

\* the bound of the source copied without shifting the index base
next_pos_unshifted(sent, i) == IF i < Len(sent) - 1 THEN sent[i + 1][3] ELSE "END"

\* sentence[i + 1][2] if i < len(sentence) - 1 else 'END'
next_pos(sent, i) == IF i < Len(sent) THEN sent[i + 1][3] ELSE "END"

\* f"{lemma}_{pos}", kept as its three parts
lexicalized_pos(lemma, pos) == << lemma, "_", pos >>

FieldIndex(name) == CHOOSE j \in DOMAIN TokenFields : TokenFields[j] = name

\* a feature dict that keeps every unpacked attribute, the gold label included
features_with_label(sent, i) ==
    LET t == sent[i] IN
    [ k \in Range(TokenFields) \cup { "lexicalized_pos", "prev_pos", "next_pos" } |->
        IF k = "lexicalized_pos" THEN << t[2], "_", t[3] >>
        ELSE IF k = "prev_pos" THEN (IF i > 1 THEN sent[i - 1][3] ELSE "START")
        ELSE IF k = "next_pos" THEN (IF i < Len(sent) THEN sent[i + 1][3] ELSE "END")
        ELSE t[FieldIndex(k)] ]

\* the dict literal of lines 46-65
features(sent, i) ==
    LET t == sent[i] IN
    [ token |-> t[1],
      lemma |-> t[2],
      pos |-> t[3],
      lexicalized_pos |-> lexicalized_pos(t[2], t[3]),
      cue |-> t[4],
      prev_pos |-> prev_pos(sent, i),
      next_pos |-> next_pos(sent, i),
      constituency_distance |-> t[5],
      same_clause |-> t[6],
      same_phrase |-> t[7],
      is_punct |-> t[8],
      sentence_position |-> t[9],
      is_negation_cue |-> t[10],
      token_distance |-> t[11],
      dependency_type |-> t[12],
      dependency_head |-> t[13],
      distance_to_root |-> t[14],
      distance_to_cue |-> t[15] ]

\* del features[exclude_feature]
del(d, key) == [ k \in (DOMAIN d) \ { key } |-> d[k] ]

\* an exclusion whose truth test is inverted, so that no name is ever removed
exclude_inverted(d, excl) ==
    IF ~Truthy(excl) /\ excl \in DOMAIN d THEN del(d, excl) ELSE d

\* if exclude_feature and exclude_feature in features: del ...
exclude(d, excl) ==
    IF Truthy(excl) /\ excl \in DOMAIN d THEN del(d, excl) ELSE d

extract_features(sent, excl) ==
    [ i \in 1..Len(sent) |-> exclude(features(sent, i), excl) ]

\* sentinel for "no value yet"
NoResult == << "<unset>" >>

\* the part of the state a specification does not exercise
IdleFeatures ==
    /\ sentence = << >>
    /\ exclude_feature = None
    /\ sentence_features = NoResult
    /\ fpc = "idle"

IdleMetrics ==
    /\ y_true = << >>
    /\ y_pred = << >>
    /\ metrics = NoResult
    /\ mpc = "idle"

\* a path at which no file exists
Absent == << "<no file>" >>

IdleFiles ==
    /\ original_file = Absent
    /\ formatted_data = NoResult
    /\ sentences_with_predictions = NoResult
    /\ output_file = Absent
    /\ reloaded_labels = NoResult
    /\ iopc = "idle"

\* a call slot in which no call is running
IdleCall ==
    [ pc |-> "idle", args |-> NoResult, tagger |-> NoResult,
      y_pred |-> NoResult, result |-> NoResult,
      trained_at |-> 0, opened_when |-> 0 ]

\* a directory without files
EmptyDir == [ path \in {} |-> Absent ]

IdleRun ==
    /\ call = [ p \in { "main" } |-> IdleCall ]
    /\ fs = EmptyDir
    /\ train_count = 0
    /\ dpc = "idle"
    /\ feature_index = 0
    /\ baseline_f1_score = NoResult
    /\ console = << >>

InitFeatures ==
    /\ sentence \in SeqsUpTo(SampleTokens, MaxLen)
    /\ exclude_feature \in ExcludeArgs
    /\ sentence_features = NoResult
    /\ fpc = "call"
    /\ IdleMetrics
    /\ IdleFiles
    /\ IdleRun

ExtractFeatures ==
    /\ fpc = "call"
    /\ sentence_features' = extract_features(sentence, exclude_feature)
    /\ fpc' = "returned"
    /\ UNCHANGED <<sentence, exclude_feature, metricVars, fileVars, runVars>>

NextFeatures == ExtractFeatures

SpecFeatures == InitFeatures /\ [][NextFeatures]_vars

(***************************************************************************)
(* Claims about extract_features                                           *)
(***************************************************************************)
\* C1: extract_features returns one mapping per token, in token order; unless
\* it is the excluded key, prev_pos of the mapping at i is the POS of token
\* i-1 ('START' for the first token) and next_pos is the POS of token i+1
\* ('END' for the last token), one-token sentences included.
C1_NeighbourPos ==
    fpc = "returned" =>
        /\ DOMAIN sentence_features = 1..Len(sentence)
        /\ \A i \in 1..Len(sentence) :
            LET m == sentence_features[i] IN
            /\ exclude_feature # "token" => m.token = sentence[i][1]
            /\ exclude_feature # "pos" => m.pos = sentence[i][3]
            /\ exclude_feature # "prev_pos" =>
                   /\ "prev_pos" \in DOMAIN m
                   /\ i = 1 => m.prev_pos = "START"
                   /\ i > 1 => m.prev_pos = sentence[i - 1][3]
            /\ exclude_feature # "next_pos" =>
                   /\ "next_pos" \in DOMAIN m
                   /\ i = Len(sentence) => m.next_pos = "END"
                   /\ i < Len(sentence) => m.next_pos = sentence[i + 1][3]

\* a sentence of three tokens whose neighbours differ in POS, built with the
\* pos feature excluded
C1_Witness ==
    /\ fpc = "returned"
    /\ Len(sentence) = 3
    /\ sentence[1][3] # sentence[2][3]
    /\ sentence[2][3] # sentence[3][3]
    /\ exclude_feature = "pos"
    /\ sentence_features[2].prev_pos = sentence[1][3]
    /\ sentence_features[2].next_pos = sentence[3][3]
    /\ sentence_features[3].next_pos = "END"

\* C2: extract_features(sentence, f) is, token by token, the mapping of
\* extract_features(sentence) with key f removed and every other key and
\* value unchanged; for f None, empty or not a key it is identical to
\* extract_features(sentence).
C2_ExcludeOnlyThatKey ==
    fpc = "returned" =>
        LET base == extract_features(sentence, None) IN
        /\ Len(sentence_features) = Len(base)
        /\ \A i \in 1..Len(base) :
            /\ DOMAIN sentence_features[i] = (DOMAIN base[i]) \ { exclude_feature }
            /\ \A k \in DOMAIN sentence_features[i] :
                   sentence_features[i][k] = base[i][k]
        /\ (exclude_feature \in { None, "" }
             \/ \A i \in 1..Len(base) : exclude_feature \notin DOMAIN base[i])
           => sentence_features = base

\* a two-token sentence built without the lemma key
C2_Witness ==
    /\ fpc = "returned"
    /\ Len(sentence) = 2
    /\ exclude_feature = "lemma"
    /\ "lemma" \notin DOMAIN sentence_features[1]
    /\ "lemma" \notin DOMAIN sentence_features[2]
    /\ "lexicalized_pos" \in DOMAIN sentence_features[1]

AttributeKeys == Range(TokenFields) \ { "label" }
DerivedKeys == { "lexicalized_pos", "prev_pos", "next_pos" }

\* C3 as stated: with no feature excluded every mapping has 17 keys, namely
\* the token attributes without the gold label plus lexicalized_pos, prev_pos
\* and next_pos, and the gold label is never a key.
C3_SeventeenKeys ==
    (fpc = "returned" /\ exclude_feature = None) =>
        \A i \in 1..Len(sentence) :
            /\ Cardinality(DOMAIN sentence_features[i]) = 17
            /\ DOMAIN sentence_features[i] = AttributeKeys \cup DerivedKeys
            /\ "label" \notin DOMAIN sentence_features[i]

\* C3 amended: with no feature excluded every mapping has 18 keys, the 15
\* token attributes other than the gold label (each with the value of its
\* tuple field) plus lexicalized_pos, prev_pos and next_pos; the gold label
\* is never a key, whatever is excluded.
C3_EighteenKeys ==
    fpc = "returned" =>
        \A i \in 1..Len(sentence) :
            /\ "label" \notin DOMAIN sentence_features[i]
            /\ exclude_feature = None =>
                /\ Cardinality(DOMAIN sentence_features[i]) = 18
                /\ Cardinality(AttributeKeys) = 15
                /\ DOMAIN sentence_features[i] = AttributeKeys \cup DerivedKeys
                /\ \A k \in AttributeKeys :
                       sentence_features[i][k] = sentence[i][FieldIndex(k)]
                /\ sentence_features[i].lexicalized_pos
                       = << sentence[i][2], "_", sentence[i][3] >>

\* a non-empty sentence built with nothing excluded
C3_Witness ==
    /\ fpc = "returned"
    /\ exclude_feature = None
    /\ Len(sentence) >= 1
    /\ Cardinality(DOMAIN sentence_features[1]) = 18

(***************************************************************************)
(* Exact fractions <<numerator, denominator>> in lowest terms, standing    *)
(* for the quotients Python computes; the int 0 of the guarded branches    *)
(* is <<0, 1>>.                                                            *)
(***************************************************************************)
RECURSIVE GCD(_, _)
GCD(a, b) == IF b = 0 THEN a ELSE GCD(b, a % b)

Frac(n, d) == LET g == GCD(n, d) IN << n \div g, d \div g >>
Zero == << 0, 1 >>
One == << 1, 1 >>
Add(p, q) == Frac(p[1] * q[2] + q[1] * p[2], p[2] * q[2])
Mul(p, q) == Frac(p[1] * q[1], p[2] * q[2])
Div(p, q) == Frac(p[1] * q[2], p[2] * q[1])
Positive(p) == p[1] > 0

(***************************************************************************)
(* is_in_scope, calculate_metrics                                          *)
(***************************************************************************)
\* a scope test that recognises one in-scope label only
is_in_scope_one_label(label) == label = "NEG"

\* label != 'OS'
is_in_scope(label) == label # "OS"

Min(a, b) == IF a <= b THEN a ELSE b

\* zip(y_true, y_pred): pairs up to the shorter argument
zip(a, b) == [ i \in 1..Min(Len(a), Len(b)) |-> << a[i], b[i] >> ]

\* sum(1 for ... if cond), over the truth values of cond
RECURSIVE sum_ones(_)
sum_ones(conds) ==
    IF conds = << >> THEN 0
    ELSE (IF Head(conds) THEN 1 ELSE 0) + sum_ones(Tail(conds))

true_positives(yt, yp) ==
    LET z == zip(yt, yp) IN
    sum_ones([ i \in DOMAIN z |-> is_in_scope(z[i][1]) /\ is_in_scope(z[i][2]) ])

\* a false-positive count with the two roles exchanged
false_positives_swapped(yt, yp) ==
    LET z == zip(yt, yp) IN
    sum_ones([ i \in DOMAIN z |-> is_in_scope(z[i][1]) /\ ~is_in_scope(z[i][2]) ])

false_positives(yt, yp) ==
    LET z == zip(yt, yp) IN
    sum_ones([ i \in DOMAIN z |-> ~is_in_scope(z[i][1]) /\ is_in_scope(z[i][2]) ])

false_negatives(yt, yp) ==
    LET z == zip(yt, yp) IN
    sum_ones([ i \in DOMAIN z |-> is_in_scope(z[i][1]) /\ ~is_in_scope(z[i][2]) ])

true_negatives(yt, yp) ==
    LET z == zip(yt, yp) IN
    sum_ones([ i \in DOMAIN z |-> ~is_in_scope(z[i][1]) /\ ~is_in_scope(z[i][2]) ])

\* returns <<precision, recall, f1_score>>
calculate_metrics(yt, yp) ==
    LET tp == true_positives(yt, yp)
        fp == false_positives(yt, yp)
        fn == false_negatives(yt, yp)
        precision == IF tp + fp > 0 THEN Frac(tp, tp + fp) ELSE Zero
        recall == IF tp + fn > 0 THEN Frac(tp, tp + fn) ELSE Zero
        f1_score == IF Positive(Add(precision, recall))
                    THEN Div(Mul(Frac(2, 1), Mul(precision, recall)),
                             Add(precision, recall))
                    ELSE Zero
    IN << precision, recall, f1_score >>

InitMetrics ==
    /\ y_true \in SeqsUpTo(Labels, MaxLabels)
    /\ y_pred \in SeqsUpTo(Labels, MaxLabels)
    /\ metrics = NoResult
    /\ mpc = "call"
    /\ IdleFeatures
    /\ IdleFiles
    /\ IdleRun

CalculateMetrics ==
    /\ mpc = "call"
    /\ metrics' = calculate_metrics(y_true, y_pred)
    /\ mpc' = "returned"
    /\ UNCHANGED <<y_true, y_pred, featVars, fileVars, runVars>>

\* a further call on the same sequences with one in-scope gold label replaced
\* by another in-scope label
RescoreRelabelledGold ==
    /\ mpc = "returned"
    /\ \E i \in DOMAIN y_true : \E l \in Labels \ { "OS", y_true[i] } :
        /\ y_true[i] # "OS"
        /\ y_true' = [ y_true EXCEPT ![i] = l ]
        /\ metrics' = calculate_metrics(y_true', y_pred)
    /\ UNCHANGED <<y_pred, mpc, featVars, fileVars, runVars>>

\* the same with one in-scope predicted label replaced
RescoreRelabelledPred ==
    /\ mpc = "returned"
    /\ \E i \in DOMAIN y_pred : \E l \in Labels \ { "OS", y_pred[i] } :
        /\ y_pred[i] # "OS"
        /\ y_pred' = [ y_pred EXCEPT ![i] = l ]
        /\ metrics' = calculate_metrics(y_true, y_pred')
    /\ UNCHANGED <<y_true, mpc, featVars, fileVars, runVars>>

NextMetrics == CalculateMetrics \/ RescoreRelabelledGold \/ RescoreRelabelledPred

SpecMetrics == InitMetrics /\ [][NextMetrics]_vars

(***************************************************************************)
(* Claims about calculate_metrics                                          *)
(***************************************************************************)
\* q is the quotient n/d
IsQuotient(q, n, d) == q[2] > 0 /\ q[1] * d = n * q[2]

\* C4: for equal-length sequences, with TP/FP/FN the numbers of positions
\* where gold and predicted are both not 'OS' / gold is 'OS' and predicted is
\* not / gold is not 'OS' and predicted is, calculate_metrics returns
\* precision TP/(TP+FP), recall TP/(TP+FN) and F1 2PR/(P+R), each 0 when its
\* denominator is 0; all-'OS' input gives 0, 0, 0 and gold OS,NEG,OS against
\* predicted OS,NEG,NEG gives 1/2, 1, 2/3.
C4_ScopeMetric ==
    (mpc = "returned" /\ Len(y_true) = Len(y_pred)) =>
        LET TP == Cardinality({ i \in DOMAIN y_true : y_true[i] # "OS" /\ y_pred[i] # "OS" })
            FP == Cardinality({ i \in DOMAIN y_true : y_true[i] = "OS" /\ y_pred[i] # "OS" })
            FN == Cardinality({ i \in DOMAIN y_true : y_true[i] # "OS" /\ y_pred[i] = "OS" })
        IN
        /\ IF TP + FP = 0 THEN metrics[1] = Zero
           ELSE IsQuotient(metrics[1], TP, TP + FP)
        /\ IF TP + FN = 0 THEN metrics[2] = Zero
           ELSE IsQuotient(metrics[2], TP, TP + FN)
        \* P + R = 0 exactly when TP = 0; otherwise
        \* 2PR/(P+R) = 2*TP*TP / (TP*(TP+FN) + TP*(TP+FP))
        /\ IF TP = 0 THEN metrics[3] = Zero
           ELSE IsQuotient(metrics[3], 2 * TP * TP, TP * (TP + FN) + TP * (TP + FP))
        /\ (\A i \in DOMAIN y_true : y_true[i] = "OS" /\ y_pred[i] = "OS")
               => metrics = << Zero, Zero, Zero >>
        /\ (y_true = << "OS", "NEG", "OS" >> /\ y_pred = << "OS", "NEG", "NEG" >>)
               => metrics = << << 1, 2 >>, << 1, 1 >>, << 2, 3 >> >>

\* the worked example of the metric has been scored
C4_Witness ==
    /\ mpc = "returned"
    /\ y_true = << "OS", "NEG", "OS" >>
    /\ y_pred = << "OS", "NEG", "NEG" >>
    /\ metrics[1] = << 1, 2 >>
    /\ metrics[3] = << 2, 3 >>

\* C5: the result of calculate_metrics depends only on which labels are 'OS':
\* rescoring after replacing a non-'OS' label of either sequence by another
\* non-'OS' label leaves precision, recall and F1 unchanged, and non-empty
\* equal-length sequences whose labels are all in scope score 1, 1, 1 even
\* when no predicted label equals its gold label.
C5_OnlyScopeMatters ==
    /\ [](( /\ mpc = "returned"
            /\ Len(y_true) = Len(y_pred)
            /\ Len(y_true) > 0
            /\ \A i \in DOMAIN y_true : y_true[i] # "OS" /\ y_pred[i] # "OS" )
          => metrics = << One, One, One >>)
    /\ [][(mpc = "returned" /\ mpc' = "returned") => metrics' = metrics]_vars

\* three in-scope gold labels, three in-scope predictions, none of them
\* equal to its gold label, scored 1, 1, 1
C5_Witness ==
    /\ mpc = "returned"
    /\ Len(y_true) = 3
    /\ Len(y_pred) = 3
    /\ \A i \in 1..3 : y_true[i] # "OS" /\ y_pred[i] # "OS" /\ y_true[i] # y_pred[i]
    /\ metrics = << One, One, One >>

(***************************************************************************)
(* TSV files and data frames                                               *)
(*                                                                         *)
(* A file is a sequence of rows, a row a record of 21 cells.  doc_id,      *)
(* sentence_num and token_num are integers; every other cell is text.      *)
(* read_csv turns a text cell that spells a missing value into NaN, and    *)
(* to_csv writes NaN as the empty field.                                   *)
(***************************************************************************)
columns ==
    << "doc_id", "sentence_num", "token_num", "token", "lemma", "pos",
       "constituency", "cue", "label", "focus", "constituency_distance",
       "same_clause", "same_phrase", "is_punct", "sentence_position",
       "is_negation_cue", "token_distance", "dependency_type",
       "dependency_head", "distance_to_root", "distance_to_cue" >>

IntColumns == { "doc_id", "sentence_num", "token_num" }

NaN == "<NaN>"

\* text that pandas.read_csv reads as a missing value
NAValues ==
    { "", "#N/A", "#N/A N/A", "#NA", "-1.#IND", "-1.#QNAN", "-NaN", "-nan",
      "1.#IND", "1.#QNAN", "<NA>", "N/A", "NA", "NULL", "NaN", "None", "n/a",
      "nan", "null" }

parse_cell(col, text) ==
    IF col \in IntColumns THEN text
    ELSE IF text \in NAValues THEN NaN ELSE text

format_cell(col, value) ==
    IF col \in IntColumns THEN value
    ELSE IF value = NaN THEN "" ELSE value

\* pd.read_csv(path, sep='\t', names=columns)
read_csv(file) ==
    [ k \in DOMAIN file |->
        [ c \in Range(columns) |-> parse_cell(c, file[k][c]) ] ]

\* df.to_csv(path, sep='\t', index=False, header=None)
to_csv(df) ==
    [ k \in DOMAIN df |->
        [ c \in Range(columns) |-> format_cell(c, df[k][c]) ] ]

(***************************************************************************)
(* read_and_format_data                                                    *)
(***************************************************************************)
\* a grouping key that ignores the document
group_key_sentence_only(row) == << 0, row.sentence_num >>

\* the key of groupby(['doc_id', 'sentence_num'])
group_key(row) == << row.doc_id, row.sentence_num >>

KeyLeq(a, b) == a[1] < b[1] \/ (a[1] = b[1] /\ a[2] <= b[2])

\* the distinct keys in ascending order (groupby sorts its groups)
RECURSIVE sorted_keys(_)
sorted_keys(S) ==
    IF S = {} THEN << >>
    ELSE LET m == CHOOSE x \in S : \A y \in S : KeyLeq(x, y)
         IN << m >> \o sorted_keys(S \ { m })

\* the rows of one group, in row order
RECURSIVE group_rows(_, _)
group_rows(df, key) ==
    IF df = << >> THEN << >>
    ELSE (IF group_key(Head(df)) = key THEN << Head(df) >> ELSE << >>)
         \o group_rows(Tail(df), key)

\* the 16-tuple of line 22
token_record(row) == [ f \in DOMAIN TokenFields |-> row[TokenFields[f]] ]

read_and_format_data(file) ==
    LET data_df == read_csv(file)
        keys == sorted_keys({ group_key(data_df[k]) : k \in DOMAIN data_df })
    IN [ j \in DOMAIN keys |->
           LET group == group_rows(data_df, keys[j])
           IN [ i \in DOMAIN group |-> token_record(group[i]) ] ]

(***************************************************************************)
(* extract_labels, write_predictions_to_file                               *)
(***************************************************************************)
\* a projection that unpacks the wrong position of the tuple
extract_labels_wrong_field(sent) == [ i \in DOMAIN sent |-> sent[i][4] ]

extract_labels(sent) == [ i \in DOMAIN sent |-> sent[i][16] ]

\* [label for sentence in sentences_with_predictions for label in sentence]
RECURSIVE flatten(_)
flatten(nested) ==
    IF nested = << >> THEN << >> ELSE Head(nested) \o flatten(Tail(nested))

\* an assignment that lands in the neighbouring text column
assign_label_to_cue(df, predictions_flat) ==
    [ k \in DOMAIN df |-> [ df[k] EXCEPT !.cue = predictions_flat[k] ] ]

\* original_df['label'] = predictions_flat
assign_label(df, predictions_flat) ==
    [ k \in DOMAIN df |-> [ df[k] EXCEPT !.label = predictions_flat[k] ] ]

\* the assignment raises ValueError unless the lengths agree
write_fails(file, nested) == Len(flatten(nested)) # Len(read_csv(file))

\* the content of the output file after a successful call
write_predictions_to_file(file, nested) ==
    to_csv(assign_label(read_csv(file), flatten(nested)))

(***************************************************************************)
(* Files the loader and the writer are exercised on                        *)
(***************************************************************************)
PredLabels == { "OS", "NEG" }

\* a row: its key, one of two token/label pairs (the token "null" reads as
\* a missing value), every other cell fixed
MkRow(d, s, w) ==
    [ doc_id |-> d, sentence_num |-> s, token_num |-> 0,
      token |-> w[1], lemma |-> w[1], pos |-> "NN", constituency |-> "(NP*)",
      cue |-> "_", label |-> w[2], focus |-> "_",
      constituency_distance |-> "1", same_clause |-> "True",
      same_phrase |-> "False", is_punct |-> "False",
      sentence_position |-> "0", is_negation_cue |-> "False",
      token_distance |-> "2", dependency_type |-> "neg",
      dependency_head |-> "3", distance_to_root |-> "1",
      distance_to_cue |-> "NA" ]

\* (doc_id, sentence_num) of the sample rows: two sentences of one document
\* and a sentence of another document with a sentence number of the first
SampleKeys == { << 1, 1 >>, << 1, 2 >>, << 2, 1 >> }

SampleRows ==
    { MkRow(key[1], key[2], w) :
        key \in SampleKeys, w \in { << "no", "NEG" >>, << "null", "OS" >> } }

SampleFiles == UNION { [1..n -> SampleRows] : n \in 1..MaxRows }

\* the number of tokens before sentence j
RECURSIVE TokensBefore(_, _)
TokensBefore(sents, j) ==
    IF j = 1 THEN 0 ELSE TokensBefore(sents, j - 1) + Len(sents[j - 1])

\* a flat label list cut into one sequence per sentence
Regroup(flat, sents) ==
    [ j \in DOMAIN sents |->
        [ i \in DOMAIN sents[j] |-> flat[TokensBefore(sents, j) + i] ] ]

\* every labelling of a list of sentences, sentence by sentence
Labellings(sents) ==
    { Regroup(flat, sents) :
        flat \in [ 1..TokensBefore(sents, Len(sents) + 1) -> PredLabels ] }

\* arguments of the writer: every labelling shaped like the loaded
\* sentences, one labelling regrouped into a single sentence, one with a
\* label too many and one with none
PredictionArgs(sents) ==
    Labellings(sents)
    \cup { << flatten([ j \in DOMAIN sents |-> [ i \in DOMAIN sents[j] |-> "NEG" ] ]) >> }
    \cup { [ j \in DOMAIN sents |-> [ i \in DOMAIN sents[j] |-> "OS" ] ] \o << << "OS" >> >> }
    \cup { << >> }

InitFiles ==
    /\ original_file \in SampleFiles
    /\ formatted_data = NoResult
    /\ sentences_with_predictions = NoResult
    /\ output_file = Absent
    /\ reloaded_labels = NoResult
    /\ iopc = "start"
    /\ IdleFeatures
    /\ IdleMetrics
    /\ IdleRun

\* formatted_data = read_and_format_data(path)
ReadAndFormatData ==
    /\ iopc = "start"
    /\ formatted_data' = read_and_format_data(original_file)
    /\ iopc' = "loaded"
    /\ UNCHANGED <<original_file, sentences_with_predictions, output_file,
                   reloaded_labels, featVars, metricVars, runVars>>

\* write_predictions_to_file(path, nested, output_path), lengths agreeing
WritePredictions ==
    /\ iopc = "loaded"
    /\ \E nested \in PredictionArgs(formatted_data) :
        /\ ~write_fails(original_file, nested)
        /\ sentences_with_predictions' = nested
        /\ output_file' = write_predictions_to_file(original_file, nested)
    /\ iopc' = "written"
    /\ UNCHANGED <<original_file, formatted_data, reloaded_labels,
                   featVars, metricVars, runVars>>

\* the same call raising ValueError before anything is written
WritePredictionsRaises ==
    /\ iopc = "loaded"
    /\ \E nested \in PredictionArgs(formatted_data) :
        /\ write_fails(original_file, nested)
        /\ sentences_with_predictions' = nested
    /\ iopc' = "ValueError"
    /\ UNCHANGED <<original_file, formatted_data, output_file,
                   reloaded_labels, featVars, metricVars, runVars>>

\* [extract_labels(s) for s in read_and_format_data(output_path)]
ReloadLabels ==
    /\ iopc = "written"
    /\ reloaded_labels' =
           LET sents == read_and_format_data(output_file)
           IN [ j \in DOMAIN sents |-> extract_labels(sents[j]) ]
    /\ iopc' = "reloaded"
    /\ UNCHANGED <<original_file, formatted_data, sentences_with_predictions,
                   output_file, featVars, metricVars, runVars>>

NextFiles ==
    \/ ReadAndFormatData
    \/ WritePredictions
    \/ WritePredictionsRaises
    \/ ReloadLabels

SpecFiles == InitFiles /\ [][NextFiles]_vars

(***************************************************************************)
(* Claims about the loader and the writer                                  *)
(***************************************************************************)
\* one label sequence per loaded sentence, each as long as its sentence
ShapedLike(nested, sents) ==
    /\ Len(nested) = Len(sents)
    /\ \A j \in DOMAIN sents : Len(nested[j]) = Len(sents[j])

\* the rows of the file are already in the order of the grouping keys
RowsInGroupOrder(file) ==
    \A k1, k2 \in DOMAIN file :
        k1 < k2 => KeyLeq(group_key(file[k1]), group_key(file[k2]))

\* C6 as stated: for predictions holding one label sequence per sentence in
\* the loader's order, writing them, loading the written file and extracting
\* the labels of each sentence gives back exactly the predictions.
C6_RoundTrip ==
    (iopc = "reloaded" /\ ShapedLike(sentences_with_predictions, formatted_data))
        => reloaded_labels = sentences_with_predictions

\* C6 amended: the round trip gives back exactly the predictions when, in
\* addition, the rows of the original file are already ordered by
\* (doc_id, sentence_num), the order in which the loader emits its groups.
C6_RoundTripOrderedFile ==
    ( /\ iopc = "reloaded"
      /\ ShapedLike(sentences_with_predictions, formatted_data)
      /\ RowsInGroupOrder(original_file) )
        => reloaded_labels = sentences_with_predictions

\* an ordered file of two sentences whose written labels differ
C6_Witness ==
    /\ iopc = "reloaded"
    /\ RowsInGroupOrder(original_file)
    /\ Len(formatted_data) = 2
    /\ ShapedLike(sentences_with_predictions, formatted_data)
    /\ Len(sentences_with_predictions[1]) = 2
    /\ sentences_with_predictions[1] = << "NEG", "OS" >>
    /\ sentences_with_predictions[2] = << "NEG" >>
    /\ reloaded_labels = sentences_with_predictions

Positions(sents) ==
    UNION { { << j, i >> : i \in DOMAIN sents[j] } : j \in DOMAIN sents }

\* C8: the loader partitions the rows by (doc_id, sentence_num): the rows
\* can be placed one-to-one onto the token positions of the sentences so
\* that two rows share a sentence iff they share doc_id and sentence_num
\* (adjacent or not), rows of a sentence keep their file order, and every
\* token record holds the 16 fields of its row, the gold label last.
C8_PartitionByKey ==
    iopc = "loaded" =>
        LET df == read_csv(original_file) IN
        \E place \in [ DOMAIN df -> Positions(formatted_data) ] :
            /\ \A k1, k2 \in DOMAIN df : place[k1] = place[k2] => k1 = k2
            /\ \A q \in Positions(formatted_data) : \E k \in DOMAIN df : place[k] = q
            /\ \A k1, k2 \in DOMAIN df :
                /\ (place[k1][1] = place[k2][1])
                     <=> ( /\ df[k1].doc_id = df[k2].doc_id
                           /\ df[k1].sentence_num = df[k2].sentence_num )
                /\ (place[k1][1] = place[k2][1] /\ k1 < k2)
                     => place[k1][2] < place[k2][2]
            /\ \A k \in DOMAIN df :
                formatted_data[place[k][1]][place[k][2]] =
                    << df[k].token, df[k].lemma, df[k].pos, df[k].cue,
                       df[k].constituency_distance, df[k].same_clause,
                       df[k].same_phrase, df[k].is_punct,
                       df[k].sentence_position, df[k].is_negation_cue,
                       df[k].token_distance, df[k].dependency_type,
                       df[k].dependency_head, df[k].distance_to_root,
                       df[k].distance_to_cue, df[k].label >>

\* a loaded file whose first and third rows form one sentence around a row
\* of another document with the same sentence number
C8_Witness ==
    /\ iopc = "loaded"
    /\ Len(original_file) = 3
    /\ group_key(original_file[1]) = group_key(original_file[3])
    /\ original_file[2].doc_id # original_file[1].doc_id
    /\ original_file[2].sentence_num = original_file[1].sentence_num
    /\ original_file[1].token # original_file[3].token
    /\ Len(formatted_data) = 2
    /\ \E j \in 1..2 : Len(formatted_data[j]) = 2

(***************************************************************************)
(* train_and_evaluate                                                      *)
(*                                                                         *)
(* The CRF library is opaque: a trained model is identified by what it was *)
(* trained on, a tagging by the model and the feature sequences it was     *)
(* given, a score by the label sequences it was computed from.             *)
(*                                                                         *)
(* train_count, trained_at and opened_when are history: the number of      *)
(* trainings completed so far, and its value when a call finished its own  *)
(* training and when it opened its tagger.                                 *)
(***************************************************************************)
train_file_path == "data/with_complete_features_training.tsv"
dev_file_path == "data/with_complete_features_dev.tsv"

\* read_and_format_data(path), by the path it was read from
train_sentences == [ sentences_of |-> train_file_path ]
dev_sentences == [ sentences_of |-> dev_file_path ]

\* [extract_features(sentence, exclude_feature=excl) for sentence in sents]
features_for(sents, excl) == [ features_of |-> sents, exclude |-> excl ]

\* [extract_labels(sentence) for sentence in sents]
labels_for(sents) == [ labels_of |-> sents ]

X_train == features_for(train_sentences, None)
y_train == labels_for(train_sentences)
X_dev == features_for(dev_sentences, None)
y_dev == labels_for(dev_sentences)

hyperparameters ==
    [ c1 |-> "0.1", c2 |-> "0.1", max_iterations |-> 100,
      possible_transitions |-> TRUE ]

\* a model file of its own for every call
model_path_per_call(p) == << "crf.model", p >>

\* the file every call trains into and opens
model_path(p) == << "crf.model" >>

\* what trainer.train writes for the sequences appended to the trainer
trained_model(args) ==
    [ X |-> args.X_train, y |-> args.y_train, params |-> hyperparameters ]

\* [tagger.tag(xseq) for xseq in X_dev]
tag(model, xseqs) == [ tagged_by |-> model, input |-> xseqs ]

\* the f1_score of calculate_metrics over the flattened sequences
f1_score_of(gold, predicted) == [ gold |-> gold, predicted |-> predicted ]

\* fs with content stored at path
write_file(dir, path, content) ==
    [ q \in (DOMAIN dir) \cup { path } |-> IF q = path THEN content ELSE dir[q] ]

NewCall(args) ==
    [ pc |-> "train", args |-> args, tagger |-> NoResult,
      y_pred |-> NoResult, result |-> NoResult,
      trained_at |-> 0, opened_when |-> 0 ]

\* trainer.append(...), trainer.set_params(...), trainer.train('crf.model')
Train(p) ==
    /\ call[p].pc = "train"
    /\ fs' = write_file(fs, model_path(p), trained_model(call[p].args))
    /\ train_count' = train_count + 1
    /\ call' = [ call EXCEPT ![p].pc = "open", ![p].trained_at = train_count + 1 ]
    /\ UNCHANGED <<dpc, feature_index, baseline_f1_score, console,
                   featVars, metricVars, fileVars>>

\* tagger = pycrfsuite.Tagger(); tagger.open('crf.model')
OpenTagger(p) ==
    /\ call[p].pc = "open"
    /\ call' = [ call EXCEPT ![p].pc = "tag",
                             ![p].tagger = fs[model_path(p)],
                             ![p].opened_when = train_count ]
    /\ UNCHANGED <<fs, train_count, dpc, feature_index, baseline_f1_score,
                   console, featVars, metricVars, fileVars>>

\* y_pred = [tagger.tag(xseq) for xseq in X_dev]
TagDev(p) ==
    /\ call[p].pc = "tag"
    /\ call' = [ call EXCEPT ![p].pc = "metrics",
                             ![p].y_pred = tag(call[p].tagger, call[p].args.X_dev) ]
    /\ UNCHANGED <<fs, train_count, dpc, feature_index, baseline_f1_score,
                   console, featVars, metricVars, fileVars>>

\* flatten, calculate_metrics, return f1_score, y_pred
ReturnScore(p) ==
    /\ call[p].pc = "metrics"
    /\ call' = [ call EXCEPT ![p].pc = "returned",
                             ![p].result = << f1_score_of(call[p].args.y_dev, call[p].y_pred),
                                              call[p].y_pred >> ]
    /\ UNCHANGED <<fs, train_count, dpc, feature_index, baseline_f1_score,
                   console, featVars, metricVars, fileVars>>

(***************************************************************************)
(* The ablation script                                                     *)
(***************************************************************************)
baseline_args ==
    [ X_train |-> X_train, y_train |-> y_train, X_dev |-> X_dev, y_dev |-> y_dev ]

\* arguments that reuse the development features of the baseline
ablation_args_stale_dev(feature) ==
    [ X_train |-> features_for(train_sentences, feature), y_train |-> y_train,
      X_dev |-> X_dev, y_dev |-> y_dev ]

\* the arguments of the call in the loop body
ablation_args(feature) ==
    [ X_train |-> features_for(train_sentences, feature), y_train |-> y_train,
      X_dev |-> features_for(dev_sentences, feature), y_dev |-> y_dev ]

\* f'predictions_without_{feature}.tsv'
output_file_path(feature) == << "predictions_without_", feature, ".tsv" >>

\* what write_predictions_to_file leaves at the output path: the table of
\* the original file with the predictions as its label column
predictions_table(original_path, predictions) ==
    [ table_of |-> original_path, label |-> predictions ]

InitScript ==
    /\ call = [ p \in { "main" } |-> IdleCall ]
    /\ fs = EmptyDir
    /\ train_count = 0
    /\ dpc = "baseline"
    /\ feature_index = 0
    /\ baseline_f1_score = NoResult
    /\ console = << >>
    /\ IdleFeatures
    /\ IdleMetrics
    /\ IdleFiles

\* baseline_f1_score, baseline_predictions = train_and_evaluate(...): entry
BaselineCall ==
    /\ dpc = "baseline"
    /\ call' = [ call EXCEPT !["main"] = NewCall(baseline_args) ]
    /\ dpc' = "baseline_run"
    /\ UNCHANGED <<fs, train_count, feature_index, baseline_f1_score, console,
                   featVars, metricVars, fileVars>>

\* the baseline call returns and its score is printed
BaselineReturn ==
    /\ dpc = "baseline_run"
    /\ call["main"].pc = "returned"
    /\ baseline_f1_score' = call["main"].result[1]
    /\ console' = Append(console, [ feature |-> None, f1 |-> call["main"].result[1] ])
    /\ dpc' = "loop"
    /\ UNCHANGED <<call, fs, train_count, feature_index,
                   featVars, metricVars, fileVars>>

\* for feature in features_to_ablate: the call of the loop body is entered
AblationCall ==
    /\ dpc = "loop"
    /\ feature_index < Len(features_to_ablate)
    /\ feature_index' = feature_index + 1
    /\ call' = [ call EXCEPT !["main"] =
                     NewCall(ablation_args(features_to_ablate[feature_index + 1])) ]
    /\ dpc' = "ablation_run"
    /\ UNCHANGED <<fs, train_count, baseline_f1_score, console,
                   featVars, metricVars, fileVars>>

\* the call returns; the score and its difference are printed and the
\* predictions written to their file
AblationReturn ==
    /\ dpc = "ablation_run"
    /\ call["main"].pc = "returned"
    /\ LET feature == features_to_ablate[feature_index]
           f1_score == call["main"].result[1]
           feature_predictions == call["main"].result[2]
       IN /\ console' = Append(console,
                 [ feature |-> feature, f1 |-> f1_score,
                   difference |-> << baseline_f1_score, f1_score >> ])
          /\ fs' = write_file(fs, output_file_path(feature),
                       predictions_table(dev_file_path, feature_predictions))
    /\ dpc' = "loop"
    /\ UNCHANGED <<call, train_count, feature_index, baseline_f1_score,
                   featVars, metricVars, fileVars>>

\* the loop has run out of features
ScriptEnd ==
    /\ dpc = "loop"
    /\ feature_index = Len(features_to_ablate)
    /\ dpc' = "done"
    /\ UNCHANGED <<call, fs, train_count, feature_index, baseline_f1_score,
                   console, featVars, metricVars, fileVars>>

Next ==
    \/ BaselineCall
    \/ BaselineReturn
    \/ AblationCall
    \/ AblationReturn
    \/ ScriptEnd
    \/ Train("main")
    \/ OpenTagger("main")
    \/ TagDev("main")
    \/ ReturnScore("main")

Spec == InitScript /\ [][Next]_vars

(***************************************************************************)
(* Calls of train_and_evaluate running concurrently                        *)
(***************************************************************************)
ConcurrentFeatures == { None, "token", "pos" }

InitConcurrent ==
    /\ call \in [ 1..NumCalls -> { NewCall(ablation_args(f)) : f \in ConcurrentFeatures } ]
    /\ fs = EmptyDir
    /\ train_count = 0
    /\ dpc = "idle"
    /\ feature_index = 0
    /\ baseline_f1_score = NoResult
    /\ console = << >>
    /\ IdleFeatures
    /\ IdleMetrics
    /\ IdleFiles

NextConcurrent ==
    \E p \in 1..NumCalls :
        \/ Train(p)
        \/ OpenTagger(p)
        \/ TagDev(p)
        \/ ReturnScore(p)

SpecConcurrent == InitConcurrent /\ [][NextConcurrent]_vars

(***************************************************************************)
(* Claims about the ablation script and about concurrent calls             *)
(***************************************************************************)
PastOpen(c) == c.pc \in { "tag", "metrics", "returned" }
PastTag(c) == c.pc \in { "metrics", "returned" }

\* the feature excluded by the run the script is in (None for the baseline)
CurrentExclusion ==
    IF feature_index = 0 THEN None ELSE features_to_ablate[feature_index]

\* the predictions the n-th ablation run must produce
ExpectedPredictions(n) ==
    LET f == features_to_ablate[n] IN
    tag([ X |-> features_for(train_sentences, f), y |-> y_train,
          params |-> hyperparameters ],
        features_for(dev_sentences, f))

\* C9: the script performs one baseline run and then one run per name of the
\* 18-name candidate list, in list order; a run trains, writes crf.model,
\* opens it, tags the development set and scores before the next run starts,
\* so the model its tagger opens is the one its own training wrote; an
\* ablation run excludes its feature from the training and the development
\* mappings, keeps the gold label sequences, and has written its predictions
\* to predictions_without_<feature>.tsv before the next run starts.
C9_SequentialAblation ==
    LET c == call["main"]
        finished == Len(console)
    IN
    /\ Len(features_to_ablate) = 18
    /\ Cardinality(Range(features_to_ablate)) = 18
    \* runs finish in the order baseline, then the list
    /\ finished <= 19
    /\ \A n \in 1..finished :
           console[n].feature = (IF n = 1 THEN None ELSE features_to_ablate[n - 1])
    /\ dpc \in { "baseline_run", "ablation_run" } => finished = feature_index
    /\ dpc = "loop" => finished = feature_index + 1
    /\ dpc = "done" => (finished = 19 /\ train_count = 19)
    \* one training per run, and none begun before the previous run finished
    /\ train_count \in { finished, finished + 1 }
    /\ c.pc = "train" => train_count = finished
    \* the run in flight works on its own feature set and the shared labels
    /\ c.pc # "idle" =>
           /\ c.args.X_train = features_for(train_sentences, CurrentExclusion)
           /\ c.args.X_dev = features_for(dev_sentences, CurrentExclusion)
           /\ c.args.y_train = y_train
           /\ c.args.y_dev = y_dev
    \* its tagger holds the model its own training wrote
    /\ PastOpen(c) =>
           /\ c.tagger = trained_model(c.args)
           /\ c.trained_at = c.opened_when
           /\ fs[<< "crf.model" >>] = c.tagger
    /\ PastTag(c) => c.y_pred = tag(trained_model(c.args), c.args.X_dev)
    /\ c.pc = "returned" =>
           c.result = << f1_score_of(y_dev, c.y_pred), c.y_pred >>
    \* a predictions file exists exactly for the ablation runs that finished
    /\ \A n \in 1..18 :
           /\ (output_file_path(features_to_ablate[n]) \in DOMAIN fs) <=> (n + 1 <= finished)
           /\ n + 1 <= finished =>
                  fs[output_file_path(features_to_ablate[n])]
                      = predictions_table(dev_file_path, ExpectedPredictions(n))
    /\ DOMAIN fs \subseteq
           { << "crf.model" >> } \cup { output_file_path(features_to_ablate[n]) : n \in 1..18 }

\* the script has ended after 19 trainings with its 18 prediction files
C9_Witness ==
    /\ dpc = "done"
    /\ train_count = 19
    /\ Len(console) = 19
    /\ Cardinality(DOMAIN fs) = 19
    /\ console[19].feature = "distance_to_cue"
    /\ fs[<< "crf.model" >>].X = features_for(train_sentences, "distance_to_cue")

\* C10: concurrent calls all train into and reopen the one file crf.model: a
\* call's tagger holds the model of whichever training completed last before
\* the call opened it, its own or another call's, and the predictions and
\* the score it returns are those of that model; so a call can return
\* results of a feature set it was not given.
C10_SharedModelFile ==
    \A p \in DOMAIN call :
        LET c == call[p] IN
        /\ PastOpen(c) =>
               /\ c.trained_at >= 1
               /\ c.opened_when >= c.trained_at
               /\ \E q \in DOMAIN call :
                      /\ call[q].trained_at = c.opened_when
                      /\ c.tagger = trained_model(call[q].args)
        /\ PastTag(c) => c.y_pred = tag(c.tagger, c.args.X_dev)
        /\ c.pc = "returned" =>
               c.result = << f1_score_of(c.args.y_dev, c.y_pred), c.y_pred >>

\* a call has returned predictions tagged by the model that another call
\* trained on a different feature set
C10_Witness ==
    \E p, q \in DOMAIN call :
        /\ p # q
        /\ call[p].pc = "returned"
        /\ call[p].opened_when = call[q].trained_at
        /\ call[p].tagger = trained_model(call[q].args)
        /\ call[q].args.X_train # call[p].args.X_train
        /\ call[p].result[2].tagged_by.X # call[p].args.X_train
        /\ call[p].result[1].predicted.tagged_by.X = call[q].args.X_train

====
